---- MODULE Spec2Model ----
(***************************************************************************)
(* Camera adjustment plugin (mhworld-custom-fov): the context tracker, the *)
(* parameter transform, the configuration reload and the two hooks.        *)
(*                                                                         *)
(* Floats are modelled as fixed-point integers with six decimal places     *)
(* (1.0 is Unit), plus the value NaN, which every arithmetic operator      *)
(* propagates and every ordered comparison answers FALSE for.              *)
(***************************************************************************)
EXTENDS Integers, Sequences, FiniteSets, TLC

VARIABLES
    g_state,                  \* camera.cpp: the tracker {context, camera_id}
    g_config,                 \* dllmain.cpp: the installed UserConfig
    g_config_last_write_time, \* dllmain.cpp: optional write time of the last parse attempt
    mem,                      \* camera address -> the fields the plugin reads and writes
    file_time,                \* last-write time of the config file on disk
    pc,                       \* position inside the running hook, "idle" between hooks
    hook,                     \* which hook is running: "init" or "update"
    arg,                      \* the camera address the running hook received
    events,                   \* history: the calls the current hook execution has made
    seen,                     \* history: what the last camera::update read
    loaded,                   \* history: the document of the last successful parse
    history,                  \* history, kept where a specification turns it on:
                              \*   reads: the identifiers camera::update has read
                              \*   parses: the calls of UserConfig::from_file
                              \*   chain: the invocations since the host last wrote
    rt                        \* projection round trip: input and result

vars == <<g_state, g_config, g_config_last_write_time, mem, file_time,
          pc, hook, arg, events, seen, loaded, history, rt>>

(***************************************************************************)
(* float                                                                   *)
(***************************************************************************)
Unit == 1000000
Kilo == 1000
NaN == -2000000000

F(n) == n * Unit

IsNaN(x) == x = NaN

FNeg(x) == IF IsNaN(x) THEN NaN ELSE 0 - x

FLess(a, b) == ~IsNaN(a) /\ ~IsNaN(b) /\ a < b

Abs(x) == IF x < 0 THEN 0 - x ELSE x

Sign(x) == IF x < 0 THEN 0 - 1 ELSE 1

\* a * b / Unit on magnitudes, split in thousands so that no partial
\* product leaves 32 bits
MulMag(a, b) ==
    LET a1 == a \div Kilo
        a0 == a % Kilo
        b1 == b \div Kilo
        b0 == b % Kilo
    IN  a1 * b1 + ((a1 * b0 + a0 * b1 + ((a0 * b0) \div Kilo)) \div Kilo)

FMul(a, b) ==
    IF IsNaN(a) \/ IsNaN(b) THEN NaN
    ELSE Sign(a) * Sign(b) * MulMag(Abs(a), Abs(b))

RECURSIVE FracDigits(_, _, _, _)
\* long division: n more decimal digits of r / b appended to acc
FracDigits(r, b, n, acc) ==
    IF n = 0 THEN acc
    ELSE FracDigits((r * 10) % b, b, n - 1, acc * 10 + ((r * 10) \div b))

DivMag(a, b) == FracDigits(a % b, b, 6, a \div b)

\* a / b; none of the quotients the plugin forms has a zero divisor, and NaN
\* stands for the result if one had
FDiv(a, b) ==
    IF IsNaN(a) \/ IsNaN(b) \/ b = 0 THEN NaN
    ELSE Sign(a) * Sign(b) * DivMag(Abs(a), Abs(b))

FMulInt(n, x) == IF IsNaN(x) THEN NaN ELSE n * x

FDivInt(x, n) == IF IsNaN(x) THEN NaN ELSE Sign(x) * (Abs(x) \div n)

\* std::round: to the nearest integer, halfway cases away from zero
FRound(x) ==
    IF IsNaN(x) THEN NaN
    ELSE Sign(x) * (((Abs(x) + (Unit \div 2)) \div Unit) * Unit)

\* Taylor polynomials of sin and cos, for arguments below pi/2
FSin(x) ==
    LET x2 == FMul(x, x)
        t5 == Unit - (x2 \div 110)
        t4 == Unit - (FMul(x2, t5) \div 72)
        t3 == Unit - (FMul(x2, t4) \div 42)
        t2 == Unit - (FMul(x2, t3) \div 20)
        t1 == Unit - (FMul(x2, t2) \div 6)
    IN  FMul(x, t1)

FCos(x) ==
    LET x2 == FMul(x, x)
        t5 == Unit - (x2 \div 90)
        t4 == Unit - (FMul(x2, t5) \div 56)
        t3 == Unit - (FMul(x2, t4) \div 30)
        t2 == Unit - (FMul(x2, t3) \div 12)
    IN  Unit - (FMul(x2, t2) \div 2)

\* std::tan
FTan(x) == IF IsNaN(x) THEN NaN ELSE FDiv(FSin(x), FCos(x))

RECURSIVE AtanSeries(_, _)
\* 1/(2k+1) - x2 * (1/(2k+3) - x2 * ( ... )), cut after the x^17 term
AtanSeries(x2, k) ==
    IF k = 8 THEN Unit \div 17
    ELSE (Unit \div (2 * k + 1)) - FMul(x2, AtanSeries(x2, k + 1))

AtanSmall(x) == FMul(x, AtanSeries(FMul(x, x), 0))

PI == 3141593
TanPiOver8 == 414214

AtanMag(p) ==
    LET q == IF p > Unit THEN DivMag(Unit, p) ELSE p
        a == IF q > TanPiOver8
             THEN (PI \div 4) + AtanSmall(FDiv(q - Unit, q + Unit))
             ELSE AtanSmall(q)
    IN  IF p > Unit THEN (PI \div 2) - a ELSE a

\* std::atan
FAtan(p) == IF IsNaN(p) THEN NaN ELSE Sign(p) * AtanMag(Abs(p))

(***************************************************************************)
(* camera.cpp: identifiers, contexts, the tracker                          *)
(***************************************************************************)
Normal == 0
Sprint == 3
Combat == 83
BaseHub == 85
BaseHubSprint == 86
LivingQuarters == 118
PrivateQuarters == 119
PrivateSuite == 120
SurveyorSet == 147
Seliana == 252
SelianaSprint == 253
SelianaHub == 254
SelianaHubSprint == 255
SelianaRoom == 256

Context == {"Hub", "Room", "Quest"}

as_str(context) ==
    CASE context = "Hub" -> "hub"
      [] context = "Room" -> "room"
      [] context = "Quest" -> "quest"
      [] OTHER -> "undefined"

sets_hub_context(id) ==
    id \in {BaseHub, BaseHubSprint, Seliana, SelianaSprint, SelianaHub, SelianaHubSprint}

\* sets_room_context without the room added for Seliana
sets_room_context_base_game(id) ==
    id \in {LivingQuarters, PrivateQuarters, PrivateSuite}

sets_room_context(id) ==
    id \in {LivingQuarters, PrivateQuarters, PrivateSuite, SelianaRoom}

\* sets_quest_context counting the Seliana grounds as a quest area
sets_quest_context_with_seliana(id) ==
    id \in {Normal, Sprint, Combat, Seliana}

sets_quest_context(id) ==
    id \in {Normal, Sprint, Combat}

InitialState == [context |-> "Quest", camera_id |-> Normal]

\* State::update keeping the tracked identifier when the new one is of no set
State_update_known_only(state, new_camera_id) ==
    IF sets_hub_context(new_camera_id) THEN [context |-> "Hub", camera_id |-> new_camera_id]
    ELSE IF sets_room_context(new_camera_id)
    THEN [context |-> "Room", camera_id |-> new_camera_id]
    ELSE IF sets_quest_context(new_camera_id)
    THEN [context |-> "Quest", camera_id |-> new_camera_id]
    ELSE state

\* State::update with the context reset to the initial one for an identifier
\* of no set
State_update_resets(state, new_camera_id) ==
    [context |-> IF sets_hub_context(new_camera_id) THEN "Hub"
                 ELSE IF sets_room_context(new_camera_id) THEN "Room"
                 ELSE "Quest",
     camera_id |-> new_camera_id]

\* State::update: three independent checks in order, then the identifier
State_update(state, new_camera_id) ==
    LET c1 == IF sets_hub_context(new_camera_id) THEN "Hub" ELSE state.context
        c2 == IF sets_room_context(new_camera_id) THEN "Room" ELSE c1
        c3 == IF sets_quest_context(new_camera_id) THEN "Quest" ELSE c2
    IN  [context |-> c3, camera_id |-> new_camera_id]

\* tan(PI / 360 * fov); the integer factor 360 is applied after the product
proj_scale_from_fov(fov) == FTan(FDivInt(FMul(PI, fov), 360))

\* the inverse with the factor of the full angle, 180 / PI * atan(proj_scale)
fov_from_proj_scale_full_angle(proj_scale) ==
    FDiv(FMulInt(180, FAtan(proj_scale)), PI)

\* 360 / PI * atan(proj_scale)
fov_from_proj_scale(proj_scale) == FDiv(FMulInt(360, FAtan(proj_scale)), PI)

default_hub_params ==
    [fov |-> F(53), distance |-> F(350), height |-> F(170), shift |-> F(0)]

default_room_params ==
    [fov |-> F(51), distance |-> F(260), height |-> F(160), shift |-> F(0 - 50)]

default_quest_params ==
    [fov |-> F(53), distance |-> F(380), height |-> F(180), shift |-> F(0)]

\* from_context answering the default-constructed Params for every context
from_context_fallback(context) ==
    [fov |-> F(53), distance |-> F(380), height |-> F(180), shift |-> F(0)]

from_context(context) ==
    CASE context = "Hub" -> default_hub_params
      [] context = "Room" -> default_room_params
      [] context = "Quest" -> default_quest_params

\* the block holds the distance with its sign inverted
from_memory(block) ==
    [fov |-> block.fov, distance |-> FNeg(block.distance),
     height |-> block.height, shift |-> block.shift]

\* to_memory storing the distance as it is
to_memory_plain(block, params) ==
    [block EXCEPT !.fov = params.fov, !.distance = params.distance,
                  !.height = params.height, !.shift = params.shift]

to_memory(block, params) ==
    [block EXCEPT !.fov = params.fov, !.distance = FNeg(params.distance),
                  !.height = params.height, !.shift = params.shift]

(***************************************************************************)
(* config.hpp, dllmain.cpp: the user configuration                         *)
(***************************************************************************)
default_fov == F(53)

DefaultSettings == [fov |-> default_fov, distance |-> F(1), height |-> F(1)]

DefaultUserConfig ==
    [hub_cam |-> DefaultSettings, room_cam |-> DefaultSettings,
     quest_cam |-> DefaultSettings, disable_room_shift |-> FALSE]

\* std::optional
nullopt == [has |-> FALSE]
Some(v) == [has |-> TRUE, value |-> v]
value_or(opt, default) == IF opt.has THEN opt.value ELSE default

\* A parsed TOML document is a table: a function from its keys to nodes.
\* A node is a number, a boolean, a string or a table.
Num(v) == [kind |-> "number", value |-> v]
Bool(b) == [kind |-> "boolean", value |-> b]
Str == [kind |-> "string"]
Table(t) == [kind |-> "table", value |-> t]
NoNode == [kind |-> "none"]

\* table[key]: an empty node view when the key is absent
At(table, key) == IF key \in DOMAIN table THEN table[key] ELSE NoNode

\* read_value<float>: absent key or a node that is no number -> nullopt
read_value_float(table, key) ==
    LET node_view == At(table, key)
    IN  IF node_view.kind = "none" THEN nullopt
        ELSE IF node_view.kind = "number" THEN Some(node_view.value)
        ELSE nullopt

\* read_value<bool>
read_value_bool(table, key) ==
    LET node_view == At(table, key)
    IN  IF node_view.kind = "none" THEN nullopt
        ELSE IF node_view.kind = "boolean" THEN Some(node_view.value)
        ELSE nullopt

fov_range == [lower |-> F(30), upper |-> F(120)]

\* std::clamp(v, lo, hi) is (v < lo) ? lo : (hi < v) ? hi : v
clamp_fov(value) ==
    IF FLess(value, fov_range.lower) THEN fov_range.lower
    ELSE IF FLess(fov_range.upper, value) THEN fov_range.upper
    ELSE value

\* optional::transform(clamp_fov)
transform_clamp_fov(opt) == IF opt.has THEN Some(clamp_fov(opt.value)) ELSE nullopt

\* from_table<Settings>
from_table_Settings(table, defaults) ==
    [fov |-> value_or(transform_clamp_fov(read_value_float(table, "fov")), defaults.fov),
     distance |-> value_or(read_value_float(table, "distance"), defaults.distance),
     height |-> value_or(read_value_float(table, "height"), defaults.height)]

\* from_table_at_key<Settings>
from_table_at_key_Settings(table, key, defaults) ==
    LET node_view == At(table, key)
    IN  IF node_view.kind = "none" THEN defaults
        ELSE IF node_view.kind # "table" THEN defaults
        ELSE from_table_Settings(node_view.value, defaults)

\* What toml::parse_file gives: a failure or the document's root table
ParseFailed == [failed |-> TRUE]
Parsed(table) == [failed |-> FALSE, table |-> table]

\* from_file resolving each context against the built-in defaults
from_file_builtin_defaults(parse_result) ==
    IF parse_result.failed THEN nullopt
    ELSE LET table == parse_result.table
             global_cam == from_table_Settings(table, DefaultSettings)
             resolve_settings(context) ==
                 from_table_at_key_Settings(table, as_str(context), DefaultSettings)
         IN  Some([hub_cam |-> resolve_settings("Hub"),
                   room_cam |-> resolve_settings("Room"),
                   quest_cam |-> resolve_settings("Quest"),
                   disable_room_shift |->
                       value_or(read_value_bool(table, "disable_room_shift"), FALSE)])

\* UserConfig::from_file
from_file(parse_result) ==
    IF parse_result.failed THEN nullopt
    ELSE LET table == parse_result.table
             global_cam == from_table_Settings(table, DefaultSettings)
             resolve_settings(context) ==
                 from_table_at_key_Settings(table, as_str(context), global_cam)
         IN  Some([hub_cam |-> resolve_settings("Hub"),
                   room_cam |-> resolve_settings("Room"),
                   quest_cam |-> resolve_settings("Quest"),
                   disable_room_shift |->
                       value_or(read_value_bool(table, "disable_room_shift"), FALSE)])

\* UserConfig::get_settings
get_settings(config, context) ==
    CASE context = "Hub" -> config.hub_cam
      [] context = "Room" -> config.room_cam
      [] context = "Quest" -> config.quest_cam
      [] OTHER -> config.hub_cam

\* adjust without the surveyor exemption
adjust_surveyor_too(params, state, config) ==
    IF FALSE THEN params
    ELSE LET settings == get_settings(config, state.context)
             base_params == from_context(state.context)
             current_proj == proj_scale_from_fov(params.fov)
             base_proj == proj_scale_from_fov(base_params.fov)
             target_proj == proj_scale_from_fov(settings.fov)
             adjusted_fov ==
                 fov_from_proj_scale(FDiv(FMul(target_proj, current_proj), base_proj))
             disable_shift ==
                 config.disable_room_shift /\ sets_room_context(state.camera_id)
         IN  [fov |-> FRound(adjusted_fov),
              distance |-> FRound(FMul(params.distance, settings.distance)),
              height |-> FRound(FMul(params.height, settings.height)),
              shift |-> IF disable_shift THEN F(0) ELSE params.shift]

\* adjust zeroing the shift by the tracked context instead of the identifier
adjust_by_context(params, state, config) ==
    IF state.camera_id = SurveyorSet THEN params
    ELSE LET settings == get_settings(config, state.context)
             base_params == from_context(state.context)
             current_proj == proj_scale_from_fov(params.fov)
             base_proj == proj_scale_from_fov(base_params.fov)
             target_proj == proj_scale_from_fov(settings.fov)
             adjusted_fov ==
                 fov_from_proj_scale(FDiv(FMul(target_proj, current_proj), base_proj))
             disable_shift ==
                 config.disable_room_shift /\ (state.context = "Room")
         IN  [fov |-> FRound(adjusted_fov),
              distance |-> FRound(FMul(params.distance, settings.distance)),
              height |-> FRound(FMul(params.height, settings.height)),
              shift |-> IF disable_shift THEN F(0) ELSE params.shift]

\* Params::adjust
adjust(params, state, config) ==
    IF state.camera_id = SurveyorSet THEN params
    ELSE LET settings == get_settings(config, state.context)
             base_params == from_context(state.context)
             current_proj == proj_scale_from_fov(params.fov)
             base_proj == proj_scale_from_fov(base_params.fov)
             target_proj == proj_scale_from_fov(settings.fov)
             adjusted_fov ==
                 fov_from_proj_scale(FDiv(FMul(target_proj, current_proj), base_proj))
             disable_shift ==
                 config.disable_room_shift /\ sets_room_context(state.camera_id)
         IN  [fov |-> FRound(adjusted_fov),
              distance |-> FRound(FMul(params.distance, settings.distance)),
              height |-> FRound(FMul(params.height, settings.height)),
              shift |-> IF disable_shift THEN F(0) ELSE params.shift]

(***************************************************************************)
(* The host: camera objects, the config file, what the hooked functions    *)
(* leave in memory                                                         *)
(***************************************************************************)
MaxTime == 2

\* a camera object's fields at 0x13b8 and 0x5d0 + {0x20, 0x18, 0x14, 0x10}
Block(id, params) ==
    [id |-> id, fov |-> params.fov, distance |-> FNeg(params.distance),
     height |-> params.height, shift |-> params.shift]

KnownIds ==
    {Normal, Sprint, Combat, BaseHub, BaseHubSprint, LivingQuarters, PrivateQuarters,
     PrivateSuite, SurveyorSet, Seliana, SelianaSprint, SelianaHub, SelianaHubSprint,
     SelianaRoom}

\* identifiers outside the enumeration, up to the largest value TLC can hold
UnknownIds == {1, 200, 2147483647}

AllIds == KnownIds \cup UnknownIds

\* one identifier of each kind: quest, hub, room, surveyor, unknown
SomeIds == {Normal, BaseHub, PrivateSuite, SurveyorSet, 200}

ZoomedParams ==
    [fov |-> F(40), distance |-> F(300), height |-> F(150), shift |-> F(0 - 20)]

Baselines == {default_hub_params, default_room_params, default_quest_params}

\* documents of the config file; the first is the empty file
EmptyDoc == Parsed(<<>>)

\* fov = 70, distance = 1.2, height = 1.0
WideDoc ==
    Parsed([fov |-> Num(F(70)), distance |-> Num(1200000), height |-> Num(F(1))])

\* fov = 70.5, [room] fov = 45, distance = 0.5, disable_room_shift = true
RoomDoc ==
    Parsed([fov |-> Num(70500000),
            room |-> Table([fov |-> Num(F(45)), distance |-> Num(500000)]),
            disable_room_shift |-> Bool(TRUE)])

\* disable_room_shift = true
FlagDoc == Parsed([disable_room_shift |-> Bool(TRUE)])

\* fov = 20, [hub] fov = 130, [quest] height = 1.2
ClampDoc ==
    Parsed([fov |-> Num(F(20)),
            hub |-> Table([fov |-> Num(F(130))]),
            quest |-> Table([height |-> Num(1200000)])])

\* fov = "wide", distance = true, hub = "x", [room] fov = "x", height = 1.2,
\* disable_room_shift = "yes"
BadTypesDoc ==
    Parsed([fov |-> Str, distance |-> Bool(TRUE), hub |-> Str,
            room |-> Table([fov |-> Str, height |-> Num(1200000)]),
            disable_room_shift |-> Str])

\* fov = nan
NanDoc == Parsed([fov |-> Num(NaN)])

\* [room] fov = 51, disable_room_shift = true
VanillaRoomDoc ==
    Parsed([room |-> Table([fov |-> Num(F(51))]), disable_room_shift |-> Bool(TRUE)])

SomeDocs == {ParseFailed, EmptyDoc, WideDoc, RoomDoc, FlagDoc, ClampDoc, BadTypesDoc, NanDoc}

NoSeen == [done |-> FALSE]

\* no history is kept
NoHistory == [reads |-> nullopt, parses |-> nullopt, chain |-> nullopt]

\* a history with one more entry, when it is kept
Record(opt, entry) == IF opt.has THEN Some(Append(opt.value, entry)) ELSE opt

Init ==
    /\ g_state = InitialState
    /\ g_config = DefaultUserConfig
    /\ g_config_last_write_time = nullopt
    /\ mem = [c \in {1} |-> Block(Normal, default_quest_params)]
    /\ file_time = 0
    /\ pc = "idle"
    /\ hook = "init"
    /\ arg = 1
    /\ events = <<>>
    /\ seen = NoSeen
    /\ loaded = nullopt
    /\ history = NoHistory
    /\ rt = [x |-> 0, y |-> 0, done |-> FALSE]

\* the user saves the config file
touch_file ==
    /\ file_time < MaxTime
    /\ file_time' = file_time + 1
    /\ UNCHANGED <<g_state, g_config, g_config_last_write_time, mem, pc, hook, arg,
                   events, seen, loaded, history, rt>>

\* reload_config installing the defaults when the parse fails
reload_config_resets(readable, parse_result) ==
    IF ~readable THEN UNCHANGED <<g_config, g_config_last_write_time, loaded, history>>
    ELSE IF g_config_last_write_time.has /\ file_time <= g_config_last_write_time.value
    THEN UNCHANGED <<g_config, g_config_last_write_time, loaded, history>>
    ELSE LET config_result == from_file(parse_result)
         IN  /\ g_config' = value_or(config_result, DefaultUserConfig)
             /\ loaded' = IF config_result.has
                          THEN Some([parse_result |-> parse_result, time |-> file_time])
                          ELSE loaded
             /\ g_config_last_write_time' = Some(file_time)
             /\ history' = [history EXCEPT !.parses =
                    Record(@, [time |-> file_time, ok |-> config_result.has])]

\* reload_config recording the write time only when the parse succeeds
reload_config_retries(readable, parse_result) ==
    IF ~readable THEN UNCHANGED <<g_config, g_config_last_write_time, loaded, history>>
    ELSE IF g_config_last_write_time.has /\ file_time <= g_config_last_write_time.value
    THEN UNCHANGED <<g_config, g_config_last_write_time, loaded, history>>
    ELSE LET config_result == from_file(parse_result)
         IN  /\ g_config' = IF config_result.has THEN config_result.value ELSE g_config
             /\ loaded' = IF config_result.has
                          THEN Some([parse_result |-> parse_result, time |-> file_time])
                          ELSE loaded
             /\ g_config_last_write_time' = IF config_result.has THEN Some(file_time)
                                            ELSE g_config_last_write_time
             /\ history' = [history EXCEPT !.parses =
                    Record(@, [time |-> file_time, ok |-> config_result.has])]

\* config::reload_config, given whether the write time can be read and what
\* parsing the file would give; the hooks exist only for a supported game
\* version, so the path has a value
reload_config(readable, parse_result) ==
    IF ~readable THEN UNCHANGED <<g_config, g_config_last_write_time, loaded, history>>
    ELSE IF g_config_last_write_time.has /\ file_time <= g_config_last_write_time.value
    THEN UNCHANGED <<g_config, g_config_last_write_time, loaded, history>>
    ELSE LET config_result == from_file(parse_result)
         IN  /\ g_config' = IF config_result.has THEN config_result.value ELSE g_config
             /\ loaded' = IF config_result.has
                          THEN Some([parse_result |-> parse_result, time |-> file_time])
                          ELSE loaded
             /\ g_config_last_write_time' = Some(file_time)
             /\ history' = [history EXCEPT !.parses =
                    Record(@, [time |-> file_time, ok |-> config_result.has])]

\* hook_init_camera / hook_update_camera, first statement
hook_reload(h, camera, Docs) ==
    /\ pc = "idle"
    /\ \E readable \in BOOLEAN, parse_result \in Docs : reload_config(readable, parse_result)
    /\ pc' = "reloaded"
    /\ hook' = h
    /\ arg' = camera
    /\ events' = <<"reload_config">>
    /\ seen' = NoSeen
    /\ UNCHANGED <<g_state, mem, file_time, rt>>

\* second statement: the original function runs and returns, leaving an
\* identifier and view parameters in the camera object
hook_call_original(Ids, Raws) ==
    /\ pc = "reloaded"
    /\ \E id \in Ids, params \in Raws : mem' = [mem EXCEPT ![arg] = Block(id, params)]
    /\ pc' = "returned"
    /\ events' = Append(events, "original")
    /\ history' = [history EXCEPT !.chain = IF @.has THEN Some(<<>>) ELSE @]
    /\ UNCHANGED <<g_state, g_config, g_config_last_write_time, file_time, hook, arg,
                   seen, loaded, rt>>

\* second statement, when the original returns without writing the camera
\* object's identifier and view parameters again
hook_call_original_no_write ==
    /\ pc = "reloaded"
    /\ pc' = "returned"
    /\ events' = Append(events, "original")
    /\ UNCHANGED <<g_state, g_config, g_config_last_write_time, mem, file_time, hook, arg,
                   seen, loaded, history, rt>>

\* camera::update
update(camera_address) ==
    LET current_params == from_memory(mem[camera_address])
        camera_id == mem[camera_address].id
        state == State_update(g_state, camera_id)
        new_params == adjust(current_params, state, g_config)
    IN  /\ g_state' = state
        /\ mem' = [mem EXCEPT ![camera_address] = to_memory(@, new_params)]
        /\ seen' = [done |-> TRUE, camera |-> camera_address,
                     block |-> mem[camera_address], context |-> g_state.context]
        /\ history' = [history EXCEPT
               !.reads = Record(@, camera_id),
               !.chain = Record(@, [before |-> mem[camera_address],
                                    after |-> to_memory(mem[camera_address], new_params),
                                    context |-> state.context,
                                    config |-> g_config])]

\* the third statement run before the original has been called
hook_update_early ==
    /\ pc = "reloaded"
    /\ update(arg)
    /\ pc' = "idle"
    /\ events' = Append(events, "camera::update")
    /\ UNCHANGED <<g_config, g_config_last_write_time, file_time, hook, arg, loaded, rt>>

\* third statement
hook_update ==
    /\ pc = "returned"
    /\ update(arg)
    /\ pc' = "idle"
    /\ events' = Append(events, "camera::update")
    /\ UNCHANGED <<g_config, g_config_last_write_time, file_time, hook, arg, loaded, rt>>

Hooks == {"init", "update"}

Next ==
    \/ touch_file
    \/ \E h \in Hooks, camera \in DOMAIN mem : hook_reload(h, camera, SomeDocs)
    \/ hook_call_original(SomeIds, Baselines \cup {ZoomedParams})
    \/ hook_update

Spec == Init /\ [][Next]_vars

\* every identifier, under the default and one other configuration
NextTracker ==
    \/ touch_file
    \/ \E h \in Hooks, camera \in DOMAIN mem :
           hook_reload(h, camera, {ParseFailed, EmptyDoc, FlagDoc})
    \/ hook_call_original(AllIds, Baselines)
    \/ hook_update

SpecTracker == Init /\ [][NextTracker]_vars

\* whole and fractional fov targets, in and out of the clamp range
FovTargets ==
    {F(20), F(30), F(45), F(53), F(70), 70500000, F(90), F(120), F(130)}

FovDocs == {Parsed([fov |-> Num(v)]) : v \in FovTargets}

NextFov ==
    \/ touch_file
    \/ \E h \in Hooks, camera \in DOMAIN mem : hook_reload(h, camera, FovDocs)
    \/ hook_call_original({Normal, BaseHub, PrivateSuite}, Baselines)
    \/ hook_update

SpecFov == Init /\ [][NextFov]_vars

\* two camera objects
InitHook ==
    /\ g_state = InitialState
    /\ g_config = DefaultUserConfig
    /\ g_config_last_write_time = nullopt
    /\ mem = [c \in {1, 2} |-> Block(Normal, default_quest_params)]
    /\ file_time = 0
    /\ pc = "idle"
    /\ hook = "init"
    /\ arg = 1
    /\ events = <<>>
    /\ seen = NoSeen
    /\ loaded = nullopt
    /\ history = NoHistory
    /\ rt = [x |-> 0, y |-> 0, done |-> FALSE]

NextHook ==
    \/ touch_file
    \/ \E h \in Hooks, camera \in DOMAIN mem :
           hook_reload(h, camera, {ParseFailed, WideDoc, RoomDoc})
    \/ hook_call_original({Normal, PrivateSuite, SurveyorSet},
                          {default_quest_params, default_room_params})
    \/ hook_update

SpecHook == InitHook /\ [][NextHook]_vars

\* the projection round trip on a grid over the clamp range
RtStep == 250000
FovTolerance == 1000

InitRoundTrip ==
    /\ g_state = InitialState
    /\ g_config = DefaultUserConfig
    /\ g_config_last_write_time = nullopt
    /\ mem = [c \in {1} |-> Block(Normal, default_quest_params)]
    /\ file_time = 0
    /\ pc = "idle"
    /\ hook = "init"
    /\ arg = 1
    /\ events = <<>>
    /\ seen = NoSeen
    /\ loaded = nullopt
    /\ history = NoHistory
    /\ \E k \in 0 .. ((fov_range.upper - fov_range.lower) \div RtStep) :
           rt = [x |-> fov_range.lower + k * RtStep, y |-> 0, done |-> FALSE]

round_trip ==
    /\ ~rt.done
    /\ rt' = [x |-> rt.x, y |-> fov_from_proj_scale(proj_scale_from_fov(rt.x)),
              done |-> TRUE]
    /\ UNCHANGED <<g_state, g_config, g_config_last_write_time, mem, file_time,
                   pc, hook, arg, events, seen, loaded, history>>

NextRoundTrip == round_trip

SpecRoundTrip == InitRoundTrip /\ [][NextRoundTrip]_vars

\* the state after construction, with the given histories kept
InitKeeping(h) ==
    /\ g_state = InitialState
    /\ g_config = DefaultUserConfig
    /\ g_config_last_write_time = nullopt
    /\ mem = [c \in {1} |-> Block(Normal, default_quest_params)]
    /\ file_time = 0
    /\ pc = "idle"
    /\ hook = "init"
    /\ arg = 1
    /\ events = <<>>
    /\ seen = NoSeen
    /\ loaded = nullopt
    /\ history = h
    /\ rt = [x |-> 0, y |-> 0, done |-> FALSE]

\* sequences of up to MaxReads invocations of camera::update
MaxReads == 4

InitReads == InitKeeping([NoHistory EXCEPT !.reads = Some(<<>>)])

NextReads ==
    \/ touch_file
    \/ /\ Len(history.reads.value) < MaxReads
       /\ \E h \in Hooks, camera \in DOMAIN mem : hook_reload(h, camera, {EmptyDoc})
    \/ hook_call_original(SomeIds, {default_quest_params})
    \/ hook_update

SpecReads == InitReads /\ [][NextReads]_vars

\* the calls of UserConfig::from_file, for a file that parses or does not
InitParses == InitKeeping([NoHistory EXCEPT !.parses = Some(<<>>)])

NextParses ==
    \/ touch_file
    \/ \E h \in Hooks, camera \in DOMAIN mem :
           hook_reload(h, camera, {ParseFailed, EmptyDoc, WideDoc})
    \/ hook_call_original({Normal, PrivateSuite}, {default_quest_params})
    \/ hook_update

SpecParses == InitParses /\ [][NextParses]_vars

\* up to MaxRepeats invocations of camera::update on a block the host wrote once
MaxRepeats == 2

InitRepeats == InitKeeping([NoHistory EXCEPT !.chain = Some(<<>>)])

NextRepeats ==
    \/ touch_file
    \/ \E h \in Hooks, camera \in DOMAIN mem :
           hook_reload(h, camera, {EmptyDoc, WideDoc, VanillaRoomDoc})
    \/ hook_call_original({Normal, PrivateSuite, SurveyorSet, 200},
                          Baselines \cup {ZoomedParams})
    \/ /\ 0 < Len(history.chain.value)
       /\ Len(history.chain.value) < MaxRepeats
       /\ hook_call_original_no_write
    \/ hook_update

SpecRepeats == InitRepeats /\ [][NextRepeats]_vars

(***************************************************************************)
(* Properties                                                              *)
(***************************************************************************)

\* C1: after State::update(new_id) the context is Hub for the six hub
\* identifiers, Room for the four room identifiers, Quest for the three quest
\* identifiers, and for every other identifier (surveyor 147 and values
\* outside the enumeration) the context tracked before the call.
C1_ClassifiesByMembership ==
    seen.done =>
        LET id == seen.block.id
        IN  /\ id \in {85, 86, 252, 253, 254, 255} => g_state.context = "Hub"
            /\ id \in {118, 119, 120, 256} => g_state.context = "Room"
            /\ id \in {0, 3, 83} => g_state.context = "Quest"
            /\ id \notin {85, 86, 252, 253, 254, 255, 118, 119, 120, 256, 0, 3, 83}
                   => g_state.context = seen.context

\* an update read the surveyor identifier while Room was tracked, and Room stays
C1_Witness ==
    /\ seen.done
    /\ seen.block.id = 147
    /\ seen.context = "Room"
    /\ g_state.context = "Room"

\* the fields of the camera that the last camera::update wrote
After == mem[seen.camera]

\* C2: when camera::update reads the surveyor identifier (147), fov, distance,
\* height and shift in memory are the same after the invocation as before,
\* for every tracked context and every configuration.
C2_SurveyorUntouched ==
    (seen.done /\ seen.block.id = 147) =>
        /\ After.fov = seen.block.fov
        /\ After.distance = seen.block.distance
        /\ After.height = seen.block.height
        /\ After.shift = seen.block.shift

\* surveyor seen in a room whose settings would change every field
C2_Witness ==
    /\ seen.done
    /\ seen.block.id = 147
    /\ g_state.context = "Room"
    /\ g_config.disable_room_shift
    /\ g_config.room_cam.fov = F(45)
    /\ g_config.room_cam.distance = 500000
    /\ seen.block.shift = F(0 - 50)
    /\ After.shift = F(0 - 50)

\* C3 as claimed: for a non-surveyor identifier the shift written is 0.0 if
\* the tracked context is Room and disable_room_shift is set, and the raw
\* shift otherwise, also when Room is a context retained from an earlier call.
C3_ShiftZeroedInRoomContext ==
    (seen.done /\ seen.block.id # 147) =>
        After.shift = IF g_state.context = "Room" /\ g_config.disable_room_shift
                      THEN 0
                      ELSE seen.block.shift

\* C3 amended: for a non-surveyor identifier the shift written is 0.0 if the
\* identifier is in the room set {118, 119, 120, 256} and disable_room_shift
\* is set, and the raw shift otherwise; a Room context retained while the
\* identifier is of no set does not zero the shift.
C3_ShiftZeroedForRoomIds ==
    (seen.done /\ seen.block.id # 147) =>
        After.shift = IF seen.block.id \in {118, 119, 120, 256} /\ g_config.disable_room_shift
                      THEN 0
                      ELSE seen.block.shift

\* Room retained under an identifier of no set, flag set: the shift passes
C3_Witness ==
    /\ seen.done
    /\ seen.block.id = 200
    /\ g_state.context = "Room"
    /\ g_config.disable_room_shift
    /\ seen.block.shift = F(0 - 50)
    /\ After.shift = F(0 - 50)

\* the fov of the built-in baseline of a context, as the claim lists them
BaselineFov(context) == IF context = "Room" THEN F(51) ELSE F(53)

IsWhole(x) == ~IsNaN(x) /\ x % Unit = 0

\* C4 as claimed: when the raw fov equals the baseline fov of the tracked
\* context and the identifier is not surveyor, the fov written back equals
\* the fov target configured for that context.
C4_BaselineFovGivesTarget ==
    (seen.done /\ seen.block.id # 147 /\ seen.block.fov = BaselineFov(g_state.context)) =>
        After.fov = get_settings(g_config, g_state.context).fov

\* C4 amended: the same, for a target that is a whole number of degrees.
C4_BaselineFovGivesWholeTarget ==
    (/\ seen.done
     /\ seen.block.id # 147
     /\ seen.block.fov = BaselineFov(g_state.context)
     /\ IsWhole(get_settings(g_config, g_state.context).fov)) =>
        After.fov = get_settings(g_config, g_state.context).fov

\* Quest, raw fov 53, target 70 gives 70
C4_Witness ==
    /\ seen.done
    /\ seen.block.id = 0
    /\ g_state.context = "Quest"
    /\ seen.block.fov = F(53)
    /\ g_config.quest_cam.fov = F(70)
    /\ After.fov = F(70)

\* C5: for a non-surveyor identifier, with D the negation of the stored
\* distance and H the stored height, the height stored afterwards is
\* round(H * S_h) and the distance stored afterwards is -round(D * S_d).
C5_ScalesAndNegates ==
    (seen.done /\ seen.block.id # 147) =>
        LET settings == get_settings(g_config, g_state.context)
            D == FNeg(seen.block.distance)
            H == seen.block.height
        IN  /\ After.height = FRound(FMul(H, settings.height))
            /\ After.distance = FNeg(FRound(FMul(D, settings.distance)))

\* D = 380 and S_d = 1.2 give 456, stored as -456; H = 180 and S_h = 1.0 give 180
C5_Witness ==
    /\ seen.done
    /\ seen.block.id = 0
    /\ seen.block.distance = 0 - F(380)
    /\ seen.block.height = F(180)
    /\ g_config.quest_cam.distance = 1200000
    /\ g_config.quest_cam.height = F(1)
    /\ After.distance = 0 - F(456)
    /\ After.height = F(180)

\* C6: the installed configuration is the result of the most recent
\* successful parse, or the built-in defaults when none has succeeded; a
\* failed load changes nothing, and every hook execution that has run to its
\* end has run camera::update.
C6_ConfigIsLastGoodParse ==
    /\ g_config =
           IF loaded.has THEN from_file(loaded.value.parse_result).value
           ELSE [hub_cam |-> [fov |-> F(53), distance |-> F(1), height |-> F(1)],
                 room_cam |-> [fov |-> F(53), distance |-> F(1), height |-> F(1)],
                 quest_cam |-> [fov |-> F(53), distance |-> F(1), height |-> F(1)],
                 disable_room_shift |-> FALSE]
    /\ (pc = "idle" /\ events # <<>>) => seen.done

\* a parse attempt failed after an earlier one had succeeded, the earlier
\* configuration is still installed, and camera::update has run since
C6_Witness ==
    /\ loaded.has
    /\ loaded.value.parse_result = WideDoc
    /\ g_config_last_write_time.has
    /\ g_config_last_write_time.value > loaded.value.time
    /\ g_config.quest_cam.fov = F(70)
    /\ seen.done

\* C7: in every execution of either hook the calls are the reload, then the
\* original, then camera::update, once each; camera::update is given the
\* address the hook received, and what it writes is the adjustment under the
\* configuration as the reload left it.
C7_HookCallOrder ==
    /\ pc = "reloaded" => events = <<"reload_config">>
    /\ pc = "returned" => events = <<"reload_config", "original">>
    /\ (pc = "idle" /\ events # <<>>) =>
           /\ events = <<"reload_config", "original", "camera::update">>
           /\ seen.done
           /\ seen.camera = arg
           /\ from_memory(mem[arg]) = adjust(from_memory(seen.block), g_state, g_config)

\* the update hook has run to its end on the second camera object, under a
\* configuration loaded by its own reload
C7_Witness ==
    /\ pc = "idle"
    /\ hook = "update"
    /\ arg = 2
    /\ seen.done
    /\ seen.camera = 2
    /\ loaded.has
    /\ loaded.value.parse_result = WideDoc
    /\ mem[2].fov = F(70)
    /\ mem[1].fov = F(53)

\* C8: the tracker starts as {Quest, 0}; it changes only in camera::update,
\* and after camera::update the tracked identifier is the one read from the
\* camera object, of whatever kind.
C8_TracksLastIdentifier ==
    /\ g_state = [context |-> "Quest", camera_id |-> 0]
    /\ [][IF pc = "returned" /\ pc' = "idle"
           THEN g_state'.camera_id = mem[arg].id
           ELSE g_state' = g_state]_vars

\* an identifier of no set has been read and is the tracked one
C8_Witness ==
    /\ seen.done
    /\ seen.block.id = 200
    /\ g_state.camera_id = 200
    /\ g_state.context = "Hub"

\* C9 as claimed: the fov of each per-context settings record lies in
\* [30, 120] in every configuration state.
C9_FovInClampRange ==
    \A context \in Context :
        LET fov == get_settings(g_config, context).fov
        IN  ~IsNaN(fov) /\ F(30) <= fov /\ fov <= F(120)

\* C10: fov_from_proj_scale(proj_scale_from_fov(x)) is x within the tolerance
\* for x in the clamp range.
C10_RoundTrip ==
    rt.done => Abs(rt.y - rt.x) <= FovTolerance

\* the round trip of 120 degrees has been computed and is not the identity
C10_Witness ==
    /\ rt.done
    /\ rt.x = F(120)
    /\ rt.y # rt.x

\* the context of the last identifier of a sequence that is in the hub, room
\* or quest set, and Quest when there is none
RECURSIVE LastClassified(_)
LastClassified(ids) ==
    IF ids = <<>> THEN "Quest"
    ELSE LET id == ids[Len(ids)]
         IN  IF id \in {85, 86, 252, 253, 254, 255} THEN "Hub"
             ELSE IF id \in {118, 119, 120, 256} THEN "Room"
             ELSE IF id \in {0, 3, 83} THEN "Quest"
             ELSE LastClassified(SubSeq(ids, 1, Len(ids) - 1))

\* C11: after any sequence of camera::update invocations, the tracked context
\* is the context of the most recent identifier read that belongs to the hub,
\* room or quest set, and Quest when no identifier read belongs to one.
C11_ContextOfLastClassified ==
    history.reads.has => g_state.context = LastClassified(history.reads.value)

\* a room identifier was read, then the surveyor identifier and one outside the
\* enumeration, and Room is still tracked
C11_Witness ==
    /\ history.reads.has
    /\ history.reads.value = <<120, 147, 200>>
    /\ g_state.context = "Room"

\* C12: when camera::update reads an identifier of the room set (118, 119,
\* 120, 256) the shift written back is 0 if disable_room_shift is true and the
\* raw shift if it is false; when it reads an identifier of the hub or quest
\* set the shift written back is the raw shift, whatever the flag.
C12_ShiftByIdentifierSet ==
    seen.done =>
        LET id == seen.block.id
        IN  /\ id \in {118, 119, 120, 256} =>
                   After.shift = IF g_config.disable_room_shift THEN 0 ELSE seen.block.shift
            /\ id \in {85, 86, 252, 253, 254, 255, 0, 3, 83} =>
                   After.shift = seen.block.shift

\* the Seliana room identifier with the flag set: a raw shift of -50 becomes 0
C12_Witness ==
    /\ seen.done
    /\ seen.block.id = 256
    /\ g_config.disable_room_shift
    /\ seen.block.shift = F(0 - 50)
    /\ After.shift = 0

\* the contexts whose set holds the identifier
ContextsSetBy(id) ==
    {c \in Context : \/ c = "Hub" /\ sets_hub_context(id)
                     \/ c = "Room" /\ sets_room_context(id)
                     \/ c = "Quest" /\ sets_quest_context(id)}

\* the context after the three checks of State::update made in the given order
RECURSIVE ChecksInOrder(_, _, _)
ChecksInOrder(context, id, order) ==
    IF order = <<>> THEN context
    ELSE ChecksInOrder(IF order[1] \in ContextsSetBy(id) THEN order[1] ELSE context,
                       id, Tail(order))

\* the orders in which three checks can be made
CheckOrders ==
    {order \in [1 .. 3 -> Context] : \A c \in Context : \E i \in 1 .. 3 : order[i] = c}

\* C13: no identifier is in more than one of the hub, room and quest sets, so
\* a call of State::update makes at most one of its three assignments, and the
\* context it leaves is the one the three checks give in any order.
C13_SetsDisjointOrderFree ==
    seen.done =>
        LET id == seen.block.id
        IN  /\ Cardinality(ContextsSetBy(id)) <= 1
            /\ \A order \in CheckOrders :
                   g_state.context = ChecksInOrder(seen.context, id, order)

\* State::update read the Seliana identifier with Quest tracked: the hub
\* assignment alone was made
C13_Witness ==
    /\ seen.done
    /\ seen.block.id = 252
    /\ seen.context = "Quest"
    /\ ContextsSetBy(252) = {"Hub"}
    /\ g_state.context = "Hub"

\* C14: reload_config parses the file only when no write time is recorded or
\* the file's write time is strictly greater than the recorded one, and it
\* records the write time after every parse attempt, successful or failed, and
\* at no other time (not when the write time cannot be read): the write times
\* of the parse attempts strictly increase, so the file is parsed at most once
\* per write time and a failed parse is not retried until the time advances,
\* and the recorded time is the time of the last attempt.
C14_ParsesOncePerWriteTime ==
    history.parses.has =>
        LET parses == history.parses.value
        IN  /\ \A i \in 1 .. Len(parses) - 1 : parses[i].time < parses[i + 1].time
            /\ g_config_last_write_time =
                   IF parses = <<>> THEN nullopt ELSE Some(parses[Len(parses)].time)

\* a parse failed at write time 0, a hook ran to its end, and the next parse
\* was made once the file had been saved again
C14_Witness ==
    /\ history.parses.has
    /\ history.parses.value = <<[time |-> 0, ok |-> FALSE], [time |-> 1, ok |-> TRUE]>>
    /\ g_config_last_write_time = Some(1)
    /\ seen.done

\* the built-in default user settings, as the claim lists them
BuiltInSettings == [fov |-> F(53), distance |-> F(1), height |-> F(1)]

BuiltInConfig ==
    [hub_cam |-> BuiltInSettings, room_cam |-> BuiltInSettings,
     quest_cam |-> BuiltInSettings, disable_room_shift |-> FALSE]

\* the four fields of a block as <<fov, distance, height, shift>>, the distance
\* with the sign the parameters have
Fields(block) == <<block.fov, 0 - block.distance, block.height, block.shift>>

\* the baseline of a context, as the claim lists them
BaselineFields(context) ==
    IF context = "Hub" THEN <<F(53), F(350), F(170), F(0)>>
    ELSE IF context = "Room" THEN <<F(51), F(260), F(160), F(0 - 50)>>
    ELSE <<F(53), F(380), F(180), F(0)>>

\* camera::update ran under the built-in settings on the baseline of the
\* context it tracks
DefaultsOnBaseline ==
    /\ seen.done
    /\ g_config = BuiltInConfig
    /\ Fields(seen.block) = BaselineFields(g_state.context)

\* C15 as stated: with the built-in default user settings, camera::update on
\* raw parameters equal to the baseline of the tracked context leaves all four
\* memory fields unchanged, for Hub, Room and Quest.
C15_DefaultsLeaveBaseline ==
    DefaultsOnBaseline => Fields(After) = Fields(seen.block)

\* C15: with the built-in default user settings, camera::update on raw
\* parameters equal to the baseline of the tracked context leaves all four
\* memory fields unchanged for Hub and Quest; for Room it leaves distance,
\* height and shift unchanged and writes the default target 53 over the
\* baseline fov 51, unless the identifier is the surveyor identifier, which
\* leaves all four unchanged.
C15_DefaultsLeaveBaselineButRoomFov ==
    DefaultsOnBaseline =>
        IF g_state.context = "Room" /\ seen.block.id # 147
        THEN Fields(After) = <<F(53), F(260), F(160), F(0 - 50)>>
        ELSE Fields(After) = Fields(seen.block)

\* the living quarters with the room baseline under the built-in settings:
\* the fov goes from 51 to 53
C15_Witness ==
    /\ DefaultsOnBaseline
    /\ seen.block.id = 118
    /\ g_state.context = "Room"
    /\ seen.block.fov = F(51)
    /\ After.fov = F(53)

\* the keys of a settings table
SettingsKeys == {"fov", "distance", "height"}

\* a number as a settings key takes it: a fov brought into [30, 120], NaN
\* staying NaN (C9)
TakenAs(key, v) ==
    IF key # "fov" \/ IsNaN(v) THEN v
    ELSE IF v < F(30) THEN F(30)
    ELSE IF v > F(120) THEN F(120)
    ELSE v

\* the value the top level of a document gives a key: its number there, else
\* the built-in default
TopLevelValue(table, key) ==
    IF key \in DOMAIN table /\ table[key].kind = "number"
    THEN TakenAs(key, table[key].value)
    ELSE BuiltInSettings[key]

\* the document gives the context no number for the key: the context entry is
\* missing or is no table, or the key is missing from the table or no number
FallsBack(table, context, key) ==
    LET name == as_str(context)
    IN  \/ name \notin DOMAIN table
        \/ table[name].kind # "table"
        \/ key \notin DOMAIN table[name].value
        \/ table[name].value[key].kind # "number"

\* C16 as stated: where the installed document gives a context no number for a
\* key, the resolved per-context value is the built-in default (fov 53,
\* distance 1.0, height 1.0).
C16_FallsBackToBuiltIn ==
    loaded.has =>
        LET table == loaded.value.parse_result.table
        IN  \A context \in Context, key \in SettingsKeys :
                FallsBack(table, context, key) =>
                    get_settings(g_config, context)[key] = BuiltInSettings[key]

\* C16: where the installed document gives a context no number for a key, the
\* resolved per-context value is the value of that key at the top level of the
\* document (a fov clamped), and the built-in default only when the top level
\* has no number for it either; the other keys of the context keep the numbers
\* its table gives them, and the configuration is installed.
C16_FallsBackToTopLevel ==
    loaded.has =>
        LET table == loaded.value.parse_result.table
        IN  \A context \in Context, key \in SettingsKeys :
                get_settings(g_config, context)[key] =
                    IF FallsBack(table, context, key)
                    THEN TopLevelValue(table, key)
                    ELSE TakenAs(key, table[as_str(context)].value[key].value)

\* a document with keys of wrong types is installed: hub is no table and the
\* room fov is no number, so both take the built-in fov, and the room height
\* is the 1.2 of its table
C16_Witness ==
    /\ loaded.has
    /\ loaded.value.parse_result = BadTypesDoc
    /\ g_config.hub_cam = BuiltInSettings
    /\ g_config.room_cam = [fov |-> F(53), distance |-> F(1), height |-> 1200000]

\* the invocations i and i + 1 of the chain ran under one configuration, the
\* second on the block the first left
Consecutive(chain, i) ==
    /\ chain[i + 1].before = chain[i].after
    /\ chain[i + 1].config = chain[i].config

\* C17 as stated: two consecutive invocations of camera::update on a camera
\* object the host has not written in between, under one configuration, leave
\* the four memory fields as the first of them left them.
C17_UpdateIdempotent ==
    history.chain.has =>
        LET chain == history.chain.value
        IN  \A i \in 1 .. Len(chain) - 1 :
                Consecutive(chain, i) => Fields(chain[i + 1].after) = Fields(chain[i].after)

\* C17: of two such invocations the second leaves the shift as the first left
\* it; it leaves the distance so when the distance scale of the tracked context
\* is 1.0, the height when the height scale is 1.0, the fov when the fov
\* target is the baseline fov of the tracked context, and all four fields when
\* the identifier is the surveyor identifier.
C17_UpdateIdempotentWhenNeutral ==
    history.chain.has =>
        LET chain == history.chain.value
        IN  \A i \in 1 .. Len(chain) - 1 :
                Consecutive(chain, i) =>
                    LET first == chain[i].after
                        second == chain[i + 1].after
                        settings == get_settings(chain[i].config, chain[i].context)
                        surveyor == first.id = 147
                    IN  /\ second.shift = first.shift
                        /\ (surveyor \/ settings.distance = F(1)) =>
                               second.distance = first.distance
                        /\ (surveyor \/ settings.height = F(1)) =>
                               second.height = first.height
                        /\ (surveyor \/ settings.fov = BaselineFov(chain[i].context)) =>
                               second.fov = first.fov

\* the private suite under [room] fov = 51 with the flag set, on the room
\* baseline: both invocations leave 51, 260, 160 and the shift 0
C17_Witness ==
    /\ history.chain.has
    /\ Len(history.chain.value) = 2
    /\ Consecutive(history.chain.value, 1)
    /\ history.chain.value[1].before = Block(120, [fov |-> F(51), distance |-> F(260),
                                                   height |-> F(160), shift |-> F(0 - 50)])
    /\ history.chain.value[1].config.disable_room_shift
    /\ Fields(history.chain.value[1].after) = <<F(51), F(260), F(160), F(0)>>
    /\ Fields(history.chain.value[2].after) = <<F(51), F(260), F(160), F(0)>>

====
